---- MODULE Spec2Model ----
(***************************************************************************)
(* Model of sql_script_splitter.py: the text normalizer (clean_query), the *)
(* block classifier (SmallScript), the script segmenter, the reference     *)
(* rewriter, the config transformer and the split job that drives them.    *)
(*                                                                         *)
(* Text is a sequence of one-character strings, so that the regular        *)
(* expressions and the str methods of the source are computed character by *)
(* character.  A call that can raise returns a record [raised, value].     *)
(***************************************************************************)
EXTENDS Integers, Sequences, FiniteSets, TLC

(***************************************************************************)
(* Characters and Python str helpers                                       *)
(***************************************************************************)
NL == "\n"
SP == " "

\* str.isspace for the characters of the model's alphabet (regex \s likewise)
IsSpace(c) == c \in {" ", "\n", "\t"}

\* s[i:] and s[:i] of Python, 1-based here
From(s, i) == SubSeq(s, i, Len(s))
Upto(s, i) == SubSeq(s, 1, i)

\* p occurs in s at index i
MatchAt(s, p, i) ==
    /\ i >= 1
    /\ i + Len(p) - 1 <= Len(s)
    /\ \A k \in 1..Len(p) : s[i + k - 1] = p[k]

StartsWith(s, p) == MatchAt(s, p, 1)
EndsWith(s, p) == MatchAt(s, p, Len(s) - Len(p) + 1)

\* least index >= i where p occurs in s, 0 when none (str.find, re.search of a literal)
Find(s, p, i) ==
    LET hits == {k \in i..(Len(s) - Len(p) + 1) : MatchAt(s, p, k)}
    IN  IF hits = {} THEN 0 ELSE CHOOSE k \in hits : \A j \in hits : k <= j

\* greatest index where p occurs in s, 0 when none (str.rfind)
RFind(s, p) ==
    LET hits == {k \in 1..(Len(s) - Len(p) + 1) : MatchAt(s, p, k)}
    IN  IF hits = {} THEN 0 ELSE CHOOSE k \in hits : \A j \in hits : k >= j

\* str.lstrip(), str.rstrip(), str.strip()
LStrip(s) ==
    LET keep == {k \in 1..Len(s) : ~IsSpace(s[k])}
    IN  IF keep = {} THEN <<>> ELSE From(s, CHOOSE k \in keep : \A j \in keep : k <= j)
RStrip(s) ==
    LET keep == {k \in 1..Len(s) : ~IsSpace(s[k])}
    IN  IF keep = {} THEN <<>> ELSE Upto(s, CHOOSE k \in keep : \A j \in keep : k >= j)
Strip(s) == LStrip(RStrip(s))

\* str.strip(",")
StripCommas(s) ==
    LET keep == {k \in 1..Len(s) : s[k] # ","}
    IN  IF keep = {} THEN <<>>
        ELSE SubSeq(s, CHOOSE k \in keep : \A j \in keep : k <= j,
                       CHOOSE k \in keep : \A j \in keep : k >= j)

\* str.lower() on the letters of the model's alphabet
LowerChar(c) ==
    CASE c = "A" -> "a" [] c = "B" -> "b" [] c = "C" -> "c" [] c = "E" -> "e"
      [] c = "F" -> "f" [] c = "I" -> "i" [] c = "J" -> "j" [] c = "L" -> "l"
      [] c = "M" -> "m" [] c = "N" -> "n" [] c = "O" -> "o" [] c = "R" -> "r"
      [] c = "S" -> "s" [] c = "T" -> "t" [] OTHER -> c
Lower(s) == [k \in 1..Len(s) |-> LowerChar(s[k])]

\* str.split(sep) for a one-character sep: the pieces between the separators
RECURSIVE Split(_, _)
Split(s, sep) ==
    LET i == Find(s, <<sep>>, 1)
    IN  IF i = 0 THEN <<s>> ELSE <<Upto(s, i - 1)>> \o Split(From(s, i + 1), sep)

\* str.splitlines(): like split on the line break, without a last empty piece
SplitLines(s) ==
    LET pieces == Split(s, NL)
    IN  IF pieces[Len(pieces)] = <<>> THEN Upto(pieces, Len(pieces) - 1) ELSE pieces

\* sep.join(list)
RECURSIVE Join(_, _)
Join(list, sep) ==
    IF list = <<>> THEN <<>>
    ELSE IF Len(list) = 1 THEN list[1]
    ELSE list[1] \o sep \o Join(Tail(list), sep)

\* the result of a call: a value, or an exception raised
Ok(v) == [raised |-> FALSE, value |-> v]
Raise == [raised |-> TRUE, value |-> <<>>]

(***************************************************************************)
(* SmallScript.clean_query                                                 *)
(***************************************************************************)
\* the test of lines 68 and 78 on a stripped line
IsBlankOrComment(line) ==
    \/ line = <<>>
    \/ StartsWith(line, <<"-", "-">>)
    \/ StartsWith(line, <<"/", "/">>)

\* lines 64-71: split_script[1] raises IndexError when no line break is left
RECURSIVE CleanStart(_)
CleanStart(q) ==
    LET i == Find(q, <<NL>>, 1)
        first == Strip(IF i = 0 THEN q ELSE Upto(q, i - 1))
    IN  IF IsBlankOrComment(first)
        THEN IF i = 0 THEN Raise ELSE CleanStart(From(q, i + 1))
        ELSE Ok(q)

\* lines 74-81: split_script[1] is read before the test, and raises IndexError
\* when the text holds no line break
RECURSIVE CleanEnd(_)
CleanEnd(q) ==
    LET i == RFind(q, <<NL>>)
    IN  IF i = 0 THEN Raise
        ELSE IF IsBlankOrComment(Strip(From(q, i + 1)))
        THEN CleanEnd(Upto(q, i - 1))
        ELSE Ok(q)

\* lines 84-87: new_query[0] raises IndexError on the empty string
Unwrap(q) ==
    LET s == Strip(q)
    IN  IF StartsWith(s, <<"(">>) /\ EndsWith(s, <<")">>)
        THEN LET inner == SubSeq(s, 2, Len(s) - 1)
             IN  IF inner = <<>> THEN Raise
                 ELSE IF inner[1] = NL THEN Ok(Tail(inner)) ELSE Ok(inner)
        ELSE Ok(q)

\* lines 90-94
RStripLines(q) ==
    LET lines == SplitLines(q)
    IN  Join([k \in 1..Len(lines) |-> RStrip(lines[k])], <<NL>>) \o <<NL>>

clean_query(query) ==
    LET a == CleanStart(query)
    IN  IF a.raised THEN Raise
        ELSE LET b == CleanEnd(a.value)
             IN  IF b.raised THEN Raise
                 ELSE LET c == Unwrap(b.value)
                      IN  IF c.raised THEN Raise ELSE Ok(RStripLines(c.value))

(***************************************************************************)
(* SmallScript.__init__                                                    *)
(***************************************************************************)
kw_select == <<"s", "e", "l", "e", "c", "t">>
kw_with == <<"w", "i", "t", "h">>
kw_from == <<"f", "r", "o", "m">>
kw_join == <<"j", "o", "i", "n">>
\* "{{", the opening of a templated configuration block
kw_open == <<"{", "{">>
\* str(None), what the f-strings of lines 43 and 51 make of a missing second word
kw_None == <<"N", "o", "n", "e">>

\* line 50: f' {{ ref("{new_name}") }}'
NewReference(new_name) ==
    <<" ", "{", "{", " ", "r", "e", "f", "(", "\"">> \o new_name
        \o <<"\"", ")", " ", "}", "}">>

\* lines 22-24: the non-empty words of the first line
FirstWords(first_line) ==
    SelectSeq(Split(Lower(StripCommas(Strip(first_line))), SP), LAMBDA w : w # <<>>)

\* line 19: clean_script.partition("\n")
FirstLine(text) ==
    LET i == Find(text, <<NL>>, 1) IN IF i = 0 THEN text ELSE Upto(text, i - 1)
OtherLines(text) ==
    LET i == Find(text, <<NL>>, 1) IN IF i = 0 THEN <<>> ELSE From(text, i + 1)

\* lines 25-26 and 42: the first word, or the second one after "with"
OldName(first_words) ==
    IF first_words[1] # kw_with THEN first_words[1]
    ELSE IF Len(first_words) > 1 THEN first_words[2] ELSE kw_None

\* lines 33-36 and 46-50: a single script or the final step
FinalScript(clean_script, base_script, final_script) ==
    Ok([content |-> clean_script,
        old_name |-> base_script,
        new_name |-> final_script,
        is_intermediate |-> FALSE,
        new_reference |-> NewReference(final_script)])

\* lines 41-50: a CTE, its content cleaned again (which may raise)
IntermediateScript(rest, old_name, final_script) ==
    IF rest.raised THEN Raise
    ELSE Ok([content |-> rest.value,
             old_name |-> old_name,
             new_name |-> final_script \o <<"_">> \o old_name,
             is_intermediate |-> TRUE,
             new_reference |-> NewReference(final_script \o <<"_">> \o old_name)])

\* lines 25-44: first_words[0] raises IndexError when the first line holds no
\* word
ClassifyWords(clean_script, first_words, base_script, final_script) ==
    IF first_words = <<>> THEN Raise
    ELSE IF first_words[1] \in {kw_open, kw_select}
    THEN FinalScript(clean_script, base_script, final_script)
    ELSE IntermediateScript(clean_query(OtherLines(clean_script)),
                            OldName(first_words), final_script)

SmallScriptOf(clean, base_script, final_script) ==
    IF clean.raised THEN Raise
    ELSE ClassifyWords(clean.value, FirstWords(FirstLine(clean.value)),
                       base_script, final_script)

\* lines 14-51.  re_expr is compiled from old_name alone: see ReSub.  The
\* model covers an old_name made of word characters, which the pattern of
\* line 51 matches literally.
SmallScript(old_script, base_script, final_script) ==
    SmallScriptOf(clean_query(old_script), base_script, final_script)

(***************************************************************************)
(* re_expr.sub: (?<=(from|join))\s{1,}{old_name}, replaced by new_reference *)
(***************************************************************************)
\* the end of the run of whitespace that starts at i (the first index after it)
RECURSIVE SkipSpace(_, _)
SkipSpace(text, i) ==
    IF i <= Len(text) /\ IsSpace(text[i]) THEN SkipSpace(text, i + 1) ELSE i

\* the look-behind of line 51: the four characters before i are from or join,
\* in lower case only (the pattern is compiled without re.IGNORECASE)
AfterKeyword(text, i) ==
    \/ MatchAt(text, kw_from, i - 4)
    \/ MatchAt(text, kw_join, i - 4)

\* re_expr matches at i: the index after the match, 0 when there is none.
\* old_name is a word of a line split on spaces: it starts with no whitespace,
\* so the greedy \s{1,} takes the whole run.  old_name is matched as a literal
\* with nothing required after it.
ReMatchEnd(old_name, text, i) ==
    IF i <= Len(text) /\ IsSpace(text[i]) /\ AfterKeyword(text, i)
    THEN LET j == SkipSpace(text, i)
         IN  IF MatchAt(text, old_name, j) THEN j + Len(old_name) ELSE 0
    ELSE 0

\* re.sub from index i on: the matches from left to right, not overlapping
RECURSIVE ReSubFrom(_, _, _, _)
ReSubFrom(old_name, new_reference, text, i) ==
    LET starts == {k \in i..Len(text) : ReMatchEnd(old_name, text, k) # 0}
    IN  IF starts = {} THEN From(text, i)
        ELSE LET k == CHOOSE n \in starts : \A j \in starts : n <= j
             IN  SubSeq(text, i, k - 1) \o new_reference
                     \o ReSubFrom(old_name, new_reference, text,
                                  ReMatchEnd(old_name, text, k))

\* lines 251-254: ref_script.re_expr.sub(ref_script.new_reference, scr.content)
ReSub(ref_script, content) ==
    ReSubFrom(ref_script.old_name, ref_script.new_reference, content, 1)

\* lines 250-254: the inner loop, over the candidates in list order
RECURSIVE RewriteReferences(_, _)
RewriteReferences(content, candidates) ==
    IF candidates = <<>> THEN content
    ELSE RewriteReferences(ReSub(candidates[1], content), Tail(candidates))

(***************************************************************************)
(* get_individual_scripts_and_dbt_config                                   *)
(***************************************************************************)
kw_as == <<" ", "a", "s">>
kw_nl_with == <<"\n", "w", "i", "t", "h", " ">>

\* the index of the line break that ends the line holding index i, Len+1 when
\* the text ends first
EndOfLine(text, i) ==
    LET e == Find(text, <<NL>>, i) IN IF e = 0 THEN Len(text) + 1 ELSE e

\* " as" lies within text[lo..hi]
HasAsWithin(text, lo, hi) ==
    \E k \in lo..(hi - 2) : MatchAt(text, kw_as, k)

\* line 136, \n(,.* as.*)\n?(?=\() tried at index i, a line break followed by a
\* comma.  Both .* are greedy and stay on the line: the group runs to the end
\* of the line when the next line starts with "(" (the line break is then
\* consumed), else to the last "(" of the line; " as" must lie before that end.
\* The result is <<first index of the group, index after the group, index
\* after the match>>, or <<>> when there is no match at i.
MarkerMatch(text, i) ==
    IF ~(i + 1 <= Len(text) /\ text[i] = NL /\ text[i + 1] = ",") THEN <<>>
    ELSE
    LET eol == EndOfLine(text, i + 1)
        parens == {p \in (i + 2)..(eol - 1) : text[p] = "("}
        last == IF parens = {} THEN 0
                ELSE CHOOSE p \in parens : \A r \in parens : p >= r
    IN  IF eol + 1 <= Len(text) /\ text[eol + 1] = "("
           /\ HasAsWithin(text, i + 2, eol - 1)
        THEN <<i + 1, eol, eol + 1>>
        ELSE IF last # 0 /\ HasAsWithin(text, i + 2, last - 1)
        THEN <<i + 1, last, last>>
        ELSE <<>>

\* re.split of line 136 from index pos on: the text before each match, the
\* group of the match, and after the last match the rest of the text
RECURSIVE SplitMarkers(_, _)
SplitMarkers(text, pos) ==
    LET starts == {i \in pos..Len(text) : MarkerMatch(text, i) # <<>>}
    IN  IF starts = {} THEN <<From(text, pos)>>
        ELSE LET i == CHOOSE k \in starts : \A j \in starts : k <= j
                 m == MarkerMatch(text, i)
             IN  <<SubSeq(text, pos, i - 1), SubSeq(text, m[1], m[2] - 1)>>
                     \o SplitMarkers(text, m[3])

\* line 148: zip(slices[::2], slices[1::2]), each pair joined by a line break
RECURSIVE JoinPairs(_)
JoinPairs(slices) ==
    IF Len(slices) < 2 THEN <<>>
    ELSE <<slices[1] \o <<NL>> \o slices[2]>> \o JoinPairs(From(slices, 3))

\* one round of (?:(?:[ ]*--.*)?\n) at index j: the index after it, 0 when the
\* line from j on is neither empty nor a comment after spaces
RECURSIVE SkipBlanks(_, _)
SkipBlanks(text, j) ==
    IF j <= Len(text) /\ text[j] = SP THEN SkipBlanks(text, j + 1) ELSE j
CommentLineEnd(text, j) ==
    IF j <= Len(text) /\ text[j] = NL THEN j + 1
    ELSE LET k == SkipBlanks(text, j)
         IN  IF MatchAt(text, <<"-", "-">>, k) /\ Find(text, <<NL>>, k) # 0
             THEN Find(text, <<NL>>, k) + 1
             ELSE 0

\* ((?:(?:[ ]*--.*)?\n)+select) with (?i), from index j on, `rounds` rounds of
\* the repeated group done: the index after the match, 0 when there is none
RECURSIVE SelectAfterLines(_, _, _)
SelectAfterLines(text, j, rounds) ==
    IF rounds >= 1 /\ j + 5 <= Len(text)
       /\ Lower(SubSeq(text, j, j + 5)) = kw_select
    THEN j + 6
    ELSE LET n == CommentLineEnd(text, j)
         IN  IF n = 0 THEN 0 ELSE SelectAfterLines(text, n, rounds + 1)

\* line 157 tried at index i: (?<=\)) and then the group
FinalMatchEnd(text, i) ==
    IF i >= 2 /\ text[i - 1] = ")" THEN SelectAfterLines(text, i, 0) ELSE 0

\* the least index >= pos where line 157 matches, 0 when none
FinalMatchStart(text, pos) ==
    LET starts == {i \in pos..Len(text) : FinalMatchEnd(text, i) # 0}
    IN  IF starts = {} THEN 0 ELSE CHOOSE k \in starts : \A j \in starts : k <= j

\* lines 157-162: last_scripts[1] + last_scripts[2] is the first match and the
\* text up to the second match; line 159 raises IndexError when line 157 finds
\* no match
SplitFinalSlice(final_slice, m1) ==
    IF m1 = 0 THEN Raise
    ELSE LET m2 == FinalMatchStart(final_slice, FinalMatchEnd(final_slice, m1))
         IN  Ok(<<Upto(final_slice, m1 - 1),
                  SubSeq(final_slice, m1, IF m2 = 0 THEN Len(final_slice) ELSE m2 - 1)>>)

\* lines 147-164, from the configuration text and the list of line 148
SplitScripts(dbt_config, joined) ==
    LET last == SplitFinalSlice(joined[Len(joined)],
                                FinalMatchStart(joined[Len(joined)], 1))
    IN  IF last.raised THEN Raise
        ELSE Ok([scripts |-> Upto(joined, Len(joined) - 1) \o last.value,
                 dbt_config |-> dbt_config])

\* lines 141-148, from the slices of line 136 and the index of "\nwith " in
\* the first of them; line 141 raises ValueError when there is none
SplitConfig(slices, w) ==
    IF w = 0 THEN Raise
    ELSE SplitScripts(Upto(slices[1], w - 1),
                      <<From(slices[1], w + Len(kw_nl_with))>> \o JoinPairs(Tail(slices)))

\* lines 136-164, on the text read at line 131
FirstSlice(all) == SplitMarkers(all, 1)[1]

\* get_individual_scripts_and_dbt_config with a line 141 that takes the whole
\* first slice as the first CTE when it holds no "\nwith "
get_individual_scripts_and_dbt_config_no_with(all) ==
    IF Find(FirstSlice(all), kw_nl_with, 1) = 0
    THEN SplitScripts(<<>>, <<FirstSlice(all)>> \o JoinPairs(Tail(SplitMarkers(all, 1))))
    ELSE SplitConfig(SplitMarkers(all, 1), Find(FirstSlice(all), kw_nl_with, 1))

get_individual_scripts_and_dbt_config(all) ==
    SplitConfig(SplitMarkers(all, 1), Find(FirstSlice(all), kw_nl_with, 1))

(***************************************************************************)
(* dbt_cfg_enable_table, dbt_cfg_add_drop                                  *)
(***************************************************************************)
kw_enabled == <<"e", "n", "a", "b", "l", "e", "d">>
kw_false == <<"f", "a", "l", "s", "e">>
kw_enabled_true == <<"e", "n", "a", "b", "l", "e", "d", " ", "=", " ", "t", "r", "u", "e">>
kw_post_hook == <<"p", "o", "s", "t", "_", "h", "o", "o", "k">>
kw_post_hook_open == <<"p", "o", "s", "t", "_", "h", "o", "o", "k", " ", "=", " ", "[">>
kw_drop_table == <<"'", "d", "r", "o", "p", " ", "t", "a", "b", "l", "e", " ">>

\* line 173, enabled[ ]{0,}?=[ ]{0,}?false at index i: the index after the
\* match, 0 when none
EnableMatchEnd(text, i) ==
    IF ~MatchAt(text, kw_enabled, i) THEN 0
    ELSE LET j == SkipBlanks(text, i + Len(kw_enabled))
         IN  IF ~(j <= Len(text) /\ text[j] = "=") THEN 0
             ELSE LET k == SkipBlanks(text, j + 1)
                  IN  IF MatchAt(text, kw_false, k) THEN k + Len(kw_false) ELSE 0

RECURSIVE EnableSubFrom(_, _)
EnableSubFrom(text, i) ==
    LET starts == {k \in i..Len(text) : EnableMatchEnd(text, k) # 0}
    IN  IF starts = {} THEN From(text, i)
        ELSE LET k == CHOOSE n \in starts : \A j \in starts : n <= j
             IN  SubSeq(text, i, k - 1) \o kw_enabled_true
                     \o EnableSubFrom(text, EnableMatchEnd(text, k))

\* lines 173-176
dbt_cfg_enable_table(dbt_config) == EnableSubFrom(dbt_config, 1)

\* line 183, post_hook\s*=\s*\[(\s*) at index i: <<index of the group, index
\* after the match>>, <<>> when none
PostMatch(text, i) ==
    IF ~MatchAt(text, kw_post_hook, i) THEN <<>>
    ELSE LET j == SkipSpace(text, i + Len(kw_post_hook))
         IN  IF ~(j <= Len(text) /\ text[j] = "=") THEN <<>>
             ELSE LET k == SkipSpace(text, j + 1)
                  IN  IF ~(k <= Len(text) /\ text[k] = "[") THEN <<>>
                      ELSE <<k + 1, SkipSpace(text, k + 1)>>

\* post_r.search: the least index where line 183 matches, 0 when none
PostSearch(text) ==
    LET starts == {i \in 1..Len(text) : PostMatch(text, i) # <<>>}
    IN  IF starts = {} THEN 0 ELSE CHOOSE k \in starts : \A j \in starts : k <= j

RECURSIVE PostSubFrom(_, _, _)
PostSubFrom(text, post_string, i) ==
    LET starts == {k \in i..Len(text) : PostMatch(text, k) # <<>>}
    IN  IF starts = {} THEN From(text, i)
        ELSE LET k == CHOOSE n \in starts : \A j \in starts : n <= j
             IN  SubSeq(text, i, k - 1) \o post_string
                     \o PostSubFrom(text, post_string, PostMatch(text, k)[2])

\* lines 195-198: one statement for each intermediate script, in list order
RECURSIVE DropStatements(_, _)
DropStatements(scripts, post_spacing) ==
    IF scripts = <<>> THEN <<>>
    ELSE (IF scripts[1].is_intermediate
          THEN kw_drop_table \o scripts[1].new_reference \o <<"'", ",">> \o post_spacing
          ELSE <<>>)
         \o DropStatements(Tail(scripts), post_spacing)

\* lines 192-201, for the first match m of line 184
AddDropAt(dbt_config, scripts, m) ==
    PostSubFrom(dbt_config,
                kw_post_hook_open \o SubSeq(dbt_config, m[1], m[2] - 1)
                    \o DropStatements(scripts, SubSeq(dbt_config, m[1], m[2] - 1)),
                1)

\* dbt_cfg_add_drop without the check of lines 186-190: a configuration with no
\* post_hook is returned as it is
dbt_cfg_add_drop_unchecked(dbt_config, scripts) ==
    IF PostSearch(dbt_config) = 0 THEN Ok(dbt_config)
    ELSE Ok(AddDropAt(dbt_config, scripts,
                      PostMatch(dbt_config, PostSearch(dbt_config))))

\* lines 179-203: raises when line 184 finds no post_hook
dbt_cfg_add_drop(dbt_config, scripts) ==
    IF PostSearch(dbt_config) = 0 THEN Raise
    ELSE Ok(AddDropAt(dbt_config, scripts,
                      PostMatch(dbt_config, PostSearch(dbt_config))))

(***************************************************************************)
(* The split job: split_script_into_files and the functions it calls       *)
(***************************************************************************)
VARIABLES
    pc,                \* the place of the job in split_script_into_files
    all_text,          \* the text of {initial_script}.sql, read at line 131
    drop_intermediate, \* SplitParameters.drop_intermediate
    cte_names,         \* the names of the CTEs the text was written with
    well_formed,       \* the text follows the input contract
    scripts,           \* the raw blocks returned at line 164
    dbt_config,        \* the configuration text
    small_scripts,     \* the list of SmallScript objects of line 286
    idx,               \* the index of scr in the loop of line 248
    dir,               \* the names of the files in scripts_path
    deleted,           \* the names removed by delete_stale_scripts
    written,           \* the files written at line 266: name -> content
    error,             \* which call raised, "none" when none has
    query,             \* an argument of clean_query
    cleaned,           \* clean_query(query)
    recleaned          \* clean_query of the value of cleaned

vars == <<pc, all_text, drop_intermediate, cte_names, well_formed, scripts,
          dbt_config, small_scripts, idx, dir, deleted, written, error,
          query, cleaned, recleaned>>

job_vars == <<all_text, drop_intermediate, cte_names, well_formed>>
clean_vars == <<query, cleaned, recleaned>>

\* bounds of the model
MaxCtes == 2
MaxLen == 5

\* SplitParameters.initial_script and final_script: "init", "out"; ".sql"
initial_script == <<"i", "n", "i", "t">>
final_script == <<"o", "u", "t">>
dot_sql == <<".", "s", "q", "l">>

\* The texts the job is run on follow the layout of the input contract: a
\* configuration block, "with", the CTEs, each with a body in parentheses, and
\* the final query.  Two kinds of text break the contract: one that starts
\* with "with" (no "\nwith " separator) and one whose last line is no select.

\* "{{ c(enabled=false, post_hook = [\n'x']) }}\nwith "
config_hook_disabled == <<"{", "{", " ", "c", "(", "e", "n", "a", "b", "l", "e", "d",
          "=", "f", "a", "l", "s", "e", ",", " ", "p", "o", "s", "t",
          "_", "h", "o", "o", "k", " ", "=", " ", "[", "\n", "'", "x",
          "'", "]", ")", " ", "}", "}", "\n", "w", "i", "t", "h", " ">>
\* "{{ c(post_hook=['x']) }}\nwith "
config_hook == <<"{", "{", " ", "c", "(", "p", "o", "s", "t", "_", "h", "o",
          "o", "k", "=", "[", "'", "x", "'", "]", ")", " ", "}", "}",
          "\n", "w", "i", "t", "h", " ">>
\* "{{ c(enabled = false) }}\nwith "
config_no_hook == <<"{", "{", " ", "c", "(", "e", "n", "a", "b", "l", "e", "d",
          " ", "=", " ", "f", "a", "l", "s", "e", ")", " ", "}", "}",
          "\n", "w", "i", "t", "h", " ">>
\* "with "
config_none == <<"w", "i", "t", "h", " ">>

ConfigTexts == {config_hook_disabled, config_hook, config_no_hook, config_none}

\* "a", "ab", "b"
CteNames == { <<"a">>, <<"a", "b">>, <<"b">> }

\* " from t", " from a", " FROM a", " from A", " join ab"
RefLines ==
    { <<" ", "f", "r", "o", "m", " ", "t">>,
      <<" ", "f", "r", "o", "m", " ", "a">>,
      <<" ", "F", "R", "O", "M", " ", "a">>,
      <<" ", "f", "r", "o", "m", " ", "A">>,
      <<" ", "j", "o", "i", "n", " ", "a", "b">> }

\* "\n)" and "\n\n)", a blank line before the closing parenthesis
Closings == { <<"\n", ")">>, <<"\n", "\n", ")">> }

FinalKinds == {"lines", "one_line", "comment_upper", "no_select"}

\* "{name} as\n(\n select 1\n from t{closing}"
FirstCte(name, closing) ==
    name \o <<" ", "a", "s", "\n", "(", "\n", " ", "s", "e", "l", "e", "c",
          "t", " ", "1", "\n", " ", "f", "r", "o", "m", " ", "t">> \o closing

\* "\n, {name} as (\n select *\n{ref}{closing}"
NextCte(name, ref, closing) ==
    <<"\n", ",", " ">> \o name \o <<" ", "a", "s", " ", "(", "\n", " ", "s", "e", "l", "e", "c",
          "t", " ", "*", "\n">> \o ref \o closing

RECURSIVE NextCtes(_, _, _)
NextCtes(names, ref, closing) ==
    IF names = <<>> THEN <<>>
    ELSE NextCte(names[1], ref, closing) \o NextCtes(Tail(names), ref, closing)

\* "\nselect *\nfrom {name}\n", "\nselect * from {name}",
\* "\n-- c\nSELECT *\nFROM {name}\n", "\n from {name}\n"
FinalQuery(kind, name) ==
    CASE kind = "lines" -> <<"\n", "s", "e", "l", "e", "c", "t", " ", "*", "\n", "f", "r",
          "o", "m", " ">> \o name \o <<NL>>
      [] kind = "one_line" -> <<"\n", "s", "e", "l", "e", "c", "t", " ", "*", " ", "f", "r",
          "o", "m", " ">> \o name
      [] kind = "comment_upper" -> <<"\n", "-", "-", " ", "c", "\n", "S", "E", "L", "E", "C", "T",
          " ", "*", "\n", "F", "R", "O", "M", " ">> \o name \o <<NL>>
      [] kind = "no_select" -> <<"\n", " ", "f", "r", "o", "m", " ">> \o name \o <<NL>>

SourceText(config, names, ref, closing, kind) ==
    config \o FirstCte(names[1], closing) \o NextCtes(Tail(names), ref, closing)
        \o FinalQuery(kind, names[Len(names)])

\* the lists of 1..MaxCtes pairwise distinct CTE names
NameLists ==
    UNION {{f \in [1..n -> CteNames] : \A i, j \in 1..n : i # j => f[i] # f[j]}
           : n \in 1..MaxCtes}

\* os.listdir(scripts_path) before the job: "init.sql", two files of an earlier
\* split, "out_old.sql" and "out_a.sql", and a file of another model,
\* "other.sql"
InitialDir ==
    { initial_script \o dot_sql,
      <<"o", "u", "t", "_", "o", "l", "d", ".", "s", "q", "l">>,
      <<"o", "u", "t", "_", "a", ".", "s", "q", "l">>,
      <<"o", "t", "h", "e", "r", ".", "s", "q", "l">> }

CleanIdle ==
    /\ query = <<>>
    /\ cleaned = Raise
    /\ recleaned = Raise

Init ==
    /\ pc = "segment"
    /\ \E config \in ConfigTexts, names \in NameLists, ref \in RefLines,
          closing \in Closings, kind \in FinalKinds :
          /\ all_text = SourceText(config, names, ref, closing, kind)
          /\ cte_names = names
          /\ well_formed = (config # config_none /\ kind # "no_select")
    /\ drop_intermediate \in BOOLEAN
    /\ scripts = <<>>
    /\ dbt_config = <<>>
    /\ small_scripts = <<>>
    /\ idx = 0
    /\ dir = InitialDir
    /\ deleted = {}
    /\ written = <<>>
    /\ error = "none"
    /\ CleanIdle

\* lines 281-283
Segment ==
    /\ pc = "segment"
    /\ LET r == get_individual_scripts_and_dbt_config(all_text)
       IN  IF r.raised
           THEN /\ pc' = "failed"
                /\ error' = "segment"
                /\ UNCHANGED <<scripts, dbt_config>>
           ELSE /\ pc' = "classify"
                /\ scripts' = r.value.scripts
                /\ dbt_config' = r.value.dbt_config
                /\ UNCHANGED error
    /\ UNCHANGED <<job_vars, small_scripts, idx, dir, deleted, written, clean_vars>>

\* line 286
Classify ==
    /\ pc = "classify"
    /\ LET made == [k \in 1..Len(scripts) |->
                       SmallScript(scripts[k], initial_script, final_script)]
       IN  IF \E k \in 1..Len(made) : made[k].raised
           THEN /\ pc' = "failed"
                /\ error' = "classify"
                /\ UNCHANGED small_scripts
           ELSE /\ pc' = "delete"
                /\ small_scripts' = [k \in 1..Len(made) |-> made[k].value]
                /\ UNCHANGED error
    /\ UNCHANGED <<job_vars, scripts, dbt_config, idx, dir, deleted, written, clean_vars>>

\* lines 227-231
delete_stale_scripts(files, initial, final) ==
    {obj \in files : /\ obj # initial \o dot_sql
                     /\ StartsWith(obj, final)
                     /\ EndsWith(obj, dot_sql)}

\* line 290
DeleteStale ==
    /\ pc = "delete"
    /\ LET stale == delete_stale_scripts(dir, initial_script, final_script)
       IN  /\ dir' = dir \ stale
           /\ deleted' = stale
    /\ pc' = "create"
    /\ UNCHANGED <<job_vars, scripts, dbt_config, small_scripts, idx, written, error, clean_vars>>

\* lines 244-245: create_new_script_files up to its loop
EnableTable ==
    /\ pc = "create"
    /\ dbt_config' = dbt_cfg_enable_table(dbt_config)
    /\ idx' = 1
    /\ pc' = "loop"
    /\ UNCHANGED <<job_vars, scripts, small_scripts, dir, deleted, written, error, clean_vars>>

\* lines 257-258: the configuration after the cleanup statements are added
AddDrop(drop, config, list) ==
    IF drop THEN dbt_cfg_add_drop(config, list) ELSE Ok(config)

\* lines 248-266: one round of the loop, for scr = scripts[idx]
WriteScript ==
    /\ pc = "loop"
    /\ LET scr == small_scripts[idx]
           rewritten == RewriteReferences(scr.content, small_scripts)
           config == AddDrop(drop_intermediate, dbt_config, small_scripts)
       IN  IF config.raised
           THEN /\ small_scripts' = [small_scripts EXCEPT ![idx].content = rewritten]
                /\ pc' = "failed"
                /\ error' = "post_hook"
                /\ UNCHANGED <<dbt_config, idx, dir, written>>
           ELSE LET content == IF scr.is_intermediate THEN rewritten
                               ELSE config.value \o <<NL>> \o rewritten
                    file == scr.new_name \o dot_sql
                IN  /\ small_scripts' = [small_scripts EXCEPT ![idx].content = content]
                    /\ dbt_config' = config.value
                    /\ written' = (file :> content) @@ written
                    /\ dir' = dir \cup {file}
                    /\ idx' = idx + 1
                    /\ pc' = IF idx = Len(small_scripts) THEN "done" ELSE "loop"
                    /\ UNCHANGED error
    /\ UNCHANGED <<job_vars, scripts, deleted, clean_vars>>

Next ==
    \/ Segment
    \/ Classify
    \/ DeleteStale
    \/ EnableTable
    \/ WriteScript

\* split_script_into_files, lines 269-291, on every text of the model
Spec == Init /\ [][Next]_vars

(***************************************************************************)
(* clean_query on its own, on every text of up to MaxLen characters        *)
(***************************************************************************)
CleanAlphabet == {"\n", " ", "(", ")", "-", "/", "a"}

Texts == UNION {[1..n -> CleanAlphabet] : n \in 0..MaxLen}

JobIdle ==
    /\ all_text = <<>>
    /\ drop_intermediate = FALSE
    /\ cte_names = <<>>
    /\ well_formed = FALSE
    /\ scripts = <<>>
    /\ dbt_config = <<>>
    /\ small_scripts = <<>>
    /\ idx = 0
    /\ dir = {}
    /\ deleted = {}
    /\ written = <<>>
    /\ error = "none"

InitClean ==
    /\ pc = "clean"
    /\ query \in Texts
    /\ cleaned = Raise
    /\ recleaned = Raise
    /\ JobIdle

\* a call of clean_query
Clean ==
    /\ pc = "clean"
    /\ cleaned' = clean_query(query)
    /\ pc' = IF cleaned'.raised THEN "raised" ELSE "cleaned"
    /\ UNCHANGED <<query, recleaned>>
    /\ UNCHANGED <<job_vars, scripts, dbt_config, small_scripts, idx, dir, deleted, written, error>>

\* a call of clean_query on the text the first call returned
CleanAgain ==
    /\ pc = "cleaned"
    /\ recleaned' = clean_query(cleaned.value)
    /\ pc' = "recleaned"
    /\ UNCHANGED <<query, cleaned>>
    /\ UNCHANGED <<job_vars, scripts, dbt_config, small_scripts, idx, dir, deleted, written, error>>

NextClean ==
    \/ Clean
    \/ CleanAgain

SpecClean == InitClean /\ [][NextClean]_vars

(***************************************************************************)
(* Properties                                                              *)
(***************************************************************************)
WordChars ==
    {"a", "b", "c", "d", "e", "f", "g", "h", "i", "j", "k", "l", "m", "n", "o",
     "p", "q", "r", "s", "t", "u", "v", "w", "x", "y", "z", "A", "B", "C", "D",
     "E", "F", "G", "H", "I", "J", "K", "L", "M", "N", "O", "P", "Q", "R", "S",
     "T", "U", "V", "W", "X", "Y", "Z", "0", "1", "2", "3", "4", "5", "6", "7",
     "8", "9", "_"}

\* text holds, right after index i - 1, a table reference to name: a from or
\* join keyword, whitespace, and name as a whole identifier, in any letter case
TableRefAt(text, name, i) ==
    /\ i >= 5
    /\ Lower(SubSeq(text, i - 4, i - 1)) \in {kw_from, kw_join}
    /\ IsSpace(text[i])
    /\ LET j == SkipSpace(text, i)
       IN  /\ MatchAt(Lower(text), Lower(name), j)
           /\ \/ j + Len(name) > Len(text)
              \/ text[j + Len(name)] \notin WordChars

HasTableRef(text, name) == \E i \in 5..Len(text) : TableRefAt(text, name, i)

\* the number of places where p occurs in text
CountOccurrences(text, p) == Cardinality({i \in 1..Len(text) : MatchAt(text, p, i)})

\* the content SmallScript gave the k-th script, before any rewriting
OriginalContent(k) ==
    SmallScript(scripts[k], initial_script, final_script).value.content

Entities == 1..Len(small_scripts)

\* the list l in the order perm, a bijection on its indices
Permuted(l, perm) == [k \in 1..Len(l) |-> l[perm[k]]]
Orders(n) == {f \in [1..n -> 1..n] : \A i, j \in 1..n : i # j => f[i] # f[j]}

\* C1: once the rewriter has run over the whole entity set, no entity's
\* content holds the original CTE name of another entity as a table reference
\* (from or join, whitespace, the name), whatever the letter case of the
\* keyword or of the name.
C1_NoRawReferenceLeft ==
    pc = "done" =>
        \A e \in Entities, c \in Entities :
            (e # c /\ small_scripts[c].is_intermediate)
                => ~HasTableRef(small_scripts[e].content, small_scripts[c].old_name)

\* C2: with cleanup injection on and a post_hook list in the configuration,
\* the final file holds exactly one 'drop table <new_reference>' statement for
\* each intermediate entity: N statements for N intermediates, none repeated.
C2_OneDropPerIntermediate ==
    (pc = "done" /\ drop_intermediate) =>
        /\ \A k \in Entities :
               small_scripts[k].is_intermediate =>
                   CountOccurrences(written[final_script \o dot_sql],
                                    kw_drop_table \o small_scripts[k].new_reference
                                        \o <<"'">>) = 1
        /\ CountOccurrences(written[final_script \o dot_sql], kw_drop_table)
               = Cardinality({k \in Entities : small_scripts[k].is_intermediate})

\* C3: when cleanup injection is requested and the configuration holds no
\* post_hook list, create_new_script_files raises the missing-post_hook error
\* in the first round of its loop: no round completes and no output file has
\* been written when the error is raised, whatever the number of entities.
C3_MissingPostHookRaisesBeforeAnyWrite ==
    /\ (drop_intermediate /\ pc \in {"loop", "done"} /\ PostSearch(dbt_config) = 0)
           => (pc = "loop" /\ idx = 1)
    /\ error = "post_hook"
           => /\ pc = "failed"
              /\ drop_intermediate
              /\ PostSearch(dbt_config) = 0
              /\ written = <<>>
              /\ \A f \in dir : ~StartsWith(f, final_script)

\* C3's case: the error has been raised for a job of three entities
C3_Witness ==
    /\ error = "post_hook"
    /\ Len(small_scripts) = 3

\* C4: a well-formed source with N CTEs and a final select query is split
\* into N+1 blocks in source order, and the SmallScript objects built from
\* them are N intermediate entities followed by the one final entity.
C4_BlocksAndOneFinalEntity ==
    (well_formed /\ pc # "segment") =>
        /\ error \notin {"segment", "classify"}
        /\ Len(scripts) = Len(cte_names) + 1
        /\ pc # "classify" =>
               /\ Len(small_scripts) = Len(scripts)
               /\ \A k \in Entities :
                      /\ small_scripts[k].is_intermediate <=> k <= Len(cte_names)
                      /\ k <= Len(cte_names) => small_scripts[k].old_name = cte_names[k]

\* C5: clean_query returns a text for every input and never raises; the empty
\* input yields a single line break.
C5_CleanQueryNeverRaises ==
    pc \in {"raised", "cleaned", "recleaned"} =>
        /\ ~cleaned.raised
        /\ query = <<>> => cleaned.value = <<NL>>

\* C6: clean_query is idempotent: cleaning the text it returned returns the
\* same text again.
C6_CleanQueryIdempotent ==
    pc = "recleaned" => recleaned = cleaned

\* C7: the content of every entity built by SmallScript ends with exactly one
\* line break: its last character is a line break and the one before is not.
C7_ContentEndsWithOneNewline ==
    pc \in {"delete", "create", "loop", "done"} =>
        \A k \in Entities :
            LET content == small_scripts[k].content
            IN  /\ Len(content) >= 1
                /\ content[Len(content)] = NL
                /\ Len(content) >= 2 => content[Len(content) - 1] # NL

\* C8: the match rule rewrites only genuine table references, the whole
\* identifier old_name after from or join: the content of an entity that
\* references no entity is left unchanged by the rewriter.
C8_OnlyGenuineReferencesRewritten ==
    pc = "done" =>
        \A k \in Entities :
            (/\ small_scripts[k].is_intermediate
             /\ \A c \in Entities :
                    ~HasTableRef(OriginalContent(k), small_scripts[c].old_name))
                => small_scripts[k].content = OriginalContent(k)

\* the text holds no "\nwith " separator
LacksWith(text) == Find(text, kw_nl_with, 1) = 0
\* the last slice of the text: the last CTE with the final query
LastSlice(text) ==
    LET slices == SplitMarkers(text, 1)
    IN  IF Len(slices) = 1
        THEN From(text, Find(text, kw_nl_with, 1) + Len(kw_nl_with))
        ELSE slices[Len(slices) - 1] \o <<NL>> \o slices[Len(slices)]
\* the last slice holds no closing parenthesis followed, after line breaks and
\* comments, by a line that starts with select
LacksSelectBoundary(text) == FinalMatchStart(LastSlice(text), 1) = 0

\* C9: when the source text lacks the "\nwith " separator or the closing
\* parenthesis then select boundary, the job fails during segmentation: no
\* stale file has been deleted and no output file has been written.
C9_StructuralFailureBeforeAnyFileChange ==
    (pc # "segment" /\ (LacksWith(all_text) \/ LacksSelectBoundary(all_text))) =>
        /\ pc = "failed"
        /\ error = "segment"
        /\ deleted = {}
        /\ written = <<>>
        /\ dir = InitialDir

\* C9's case: a job on a text without the "\nwith " separator has failed
C9_Witness ==
    /\ pc = "failed"
    /\ error = "segment"
    /\ LacksWith(all_text)

\* C10: for entities with pairwise distinct old_name values, the content the
\* rewriter produces for each entity is the same for every order of the
\* candidate list.
C10_RewriteOrderIndependent ==
    (/\ pc = "loop"
     /\ idx = 1
     /\ \A i \in Entities, j \in Entities :
            i # j => small_scripts[i].old_name # small_scripts[j].old_name) =>
        \A k \in Entities, perm \in Orders(Len(small_scripts)) :
            RewriteReferences(small_scripts[k].content, Permuted(small_scripts, perm))
                = RewriteReferences(small_scripts[k].content, small_scripts)

====
